---- MODULE Spec2Model ----
(***************************************************************************)
(* battery_prediction_app.py: a Streamlit script.  Every interaction of a  *)
(* browser session re-executes the script body for that session.  The      *)
(* state is the four artifact files on disk (shared by all sessions), each *)
(* session's widget state (selected page, the file held by each uploader), *)
(* the position of each session's current script run and what that run has *)
(* executed and displayed so far.                                          *)
(*                                                                         *)
(* A buffer is a sequence of units.  For a model file a unit is an opaque   *)
(* byte.  For the dataset a unit is one CSV line: 0 is the line            *)
(* "battery_id,failure" and 1 is the line "1,1".                           *)
(***************************************************************************)
EXTENDS Integers, Sequences, FiniteSets, TLC

\* ------------------------------------------------------------------ bounds
\* files the users choose in the uploaders, over all sessions
MaxUploads == 2

\* ------------------------------------------------------------- vocabulary
Sessions == {"A", "B"}

\* The buffers a user may upload.  As a dataset: no line at all; a header
\* without a 'failure' column; the proper header and a row that is the header
\* again (a non-numeric 'failure' cell); the proper header and a proper row.
Buffers == {<<>>, <<1>>, <<0, 0>>, <<0, 1>>}

Kinds == {"csv", "xgb", "lstm", "svm"}
\* the order in which the Home body reaches the four upload blocks
KindSeq == <<"csv", "xgb", "lstm", "svm">>

Labels == {"home", "data_exploration", "model_performance", "prediction",
           "battery_monitoring"}

VARIABLES
    file,     \* the artifact files: kind -> content, for the files that exist
    widget,   \* session -> (kind -> buffer), for the uploaders holding a file
    page,     \* session -> label selected in the sidebar selectbox
    pc,       \* session -> position of its script run
    cur,      \* session -> kind of the upload block the run is in
    data,     \* session -> what load_battery_data gave the current run
    ran,      \* session -> what the current run has executed: the page body
              \*   it entered, "load", the upload blocks it entered (a kind),
              \*   "<kind>_replaced" when its open truncated other content,
              \*   "<kind>_saved" when its write and close returned, "footer"
    shown,    \* session -> messages and metrics the current run has emitted
    qsRate,   \* session -> the Quick Stats "Failure Rate" metric
    pvRate,   \* session -> the upload preview "Failure Rate" metric
    superseded, \* the <<session, kind>> whose uploader holds a file chosen
              \*   before another session chose one of the same kind
    helper,   \* how utils.data_loader behaves: missing, raises, none
    uploadsLeft

vars == <<file, widget, page, pc, cur, data, ran, shown, qsRate, pvRate,
          superseded, helper, uploadsLeft>>

Running == {"open", "write"}
Stopped == {"idle", "done", "crashed"}

\* ------------------------------------------------------------ the dataset
NoData(res) == [res |-> res, failure |-> FALSE, id |-> FALSE, rows |-> <<>>]

\* pd.read_csv: no line at all is an EmptyDataError; otherwise the first line
\* names the columns and the others are rows.
Parseable(b) == Len(b) > 0

ParseCSV(b) ==
    [res |-> "data", failure |-> (b[1] = 0), id |-> (b[1] = 0), rows |-> Tail(b)]

\* the 'failure' cell of a row is numeric only for the line "1,1"
Numeric(rows) == \A i \in 1..Len(rows) : rows[i] = 1

RECURSIVE SumSeq(_)
SumSeq(s) == IF s = <<>> THEN 0 ELSE Head(s) + SumSeq(Tail(s))

NoRate == [shown |-> FALSE, nan |-> FALSE, tenths |-> 0]
Rate(t) == [shown |-> TRUE, nan |-> FALSE, tenths |-> t]
NanRate == [shown |-> TRUE, nan |-> TRUE, tenths |-> 0]
Raised == [shown |-> FALSE, nan |-> TRUE, tenths |-> 0]

\* f"{x:.1f}" of sum / len * 100, in tenths of a percent
FormatRate(sum, len) == (sum * 2000 + len) \div (2 * len)

\* data['failure'].sum() / len(data) * 100: a non-numeric column raises; no
\* row at all divides zero by zero, which raises or gives nan depending on
\* the type pandas returns for the empty sum.
FailureRate(d) ==
    IF ~Numeric(d.rows) THEN {Raised}
    ELSE IF Len(d.rows) = 0 THEN {Raised, NanRate}
    ELSE {Rate(FormatRate(SumSeq(d.rows), Len(d.rows)))}

\* from utils.data_loader import load_battery_data; load_battery_data(): the
\* module is missing, or the helper reads the dataset file and, when there is
\* none it can parse, raises or returns None (h says which).
HelperModes == {"missing", "raises", "none"}
LoadOutcome(f, h) ==
    IF h = "missing" THEN NoData("import_error")
    ELSE IF "csv" \in DOMAIN f /\ Parseable(f["csv"]) THEN ParseCSV(f["csv"])
    ELSE NoData(h)

\* The Quick Stats block: the messages and the rate it leaves for a load
\* outcome d.
QuickStatsRateUnguarded(d) == IF d.failure THEN FailureRate(d) ELSE {Raised}
QuickStatsRate(d) == IF d.failure THEN FailureRate(d) ELSE {Rate(0)}

QuickStats(d) ==
    IF d.res \in {"import_error", "raises"}
        THEN {[msgs |-> {"qs_error", "qs_prompt"}, rate |-> NoRate]}
    ELSE IF d.res = "none"
        THEN {[msgs |-> {}, rate |-> NoRate]}
    ELSE {IF r = Raised
            THEN [msgs |-> {"records", "units", "features", "qs_error",
                            "qs_prompt"}, rate |-> NoRate]
            ELSE [msgs |-> {"records", "units", "features", "rate"},
                  rate |-> r] : r \in QuickStatsRate(d)}

\* The preview after the dataset was saved: read_csv of the uploaded buffer,
\* the data frame, the metrics.
PreviewSuccessLast(b) ==
    IF ~Parseable(b)
        THEN {[msgs |-> {"err_csv"}, rate |-> NoRate]}
    ELSE IF ~ParseCSV(b).failure
        THEN {[msgs |-> {"preview", "pv_records", "pv_features", "ok_csv"},
               rate |-> NoRate]}
    ELSE {IF r = Raised
            THEN [msgs |-> {"preview", "pv_records", "pv_features", "err_csv"},
                  rate |-> NoRate]
            ELSE [msgs |-> {"preview", "pv_records", "pv_features", "pv_rate",
                            "ok_csv"}, rate |-> r]
          : r \in FailureRate(ParseCSV(b))}
Preview(b) ==
    IF ~Parseable(b)
        THEN {[msgs |-> {"ok_csv", "err_csv"}, rate |-> NoRate]}
    ELSE IF ~ParseCSV(b).failure
        THEN {[msgs |-> {"ok_csv", "preview", "pv_records", "pv_features"},
               rate |-> NoRate]}
    ELSE {IF r = Raised
            THEN [msgs |-> {"ok_csv", "preview", "pv_records", "pv_features",
                            "err_csv"}, rate |-> NoRate]
            ELSE [msgs |-> {"ok_csv", "preview", "pv_records", "pv_features",
                            "pv_rate"}, rate |-> r]
          : r \in FailureRate(ParseCSV(b))}

\* -------------------------------------------------------------- the files
\* open(path, "wb"): the file exists and is empty afterwards
TruncateKeep(f, k) == IF k \in DOMAIN f THEN f ELSE (k :> <<>>) @@ f
TruncateWrongPath(f, k) == ("xgb" :> <<>>) @@ f
Truncate(f, k) == (k :> <<>>) @@ f

\* f.write(b) on a handle at offset 0: b replaces the first Len(b) units and
\* what the file holds beyond them stays
OverlayAppend(old, b) == old \o b
Overlay(old, b) ==
    b \o (IF Len(old) > Len(b) THEN SubSeq(old, Len(b) + 1, Len(old)) ELSE <<>>)

Prefixes(b) == {SubSeq(b, 1, n) : n \in 0..(Len(b) - 1)}

\* ----------------------------------------------------------- the script run
Init ==
    /\ file = <<>>
    /\ widget = [s \in Sessions |-> <<>>]
    /\ page = [s \in Sessions |-> "home"]
    /\ pc = [s \in Sessions |-> "idle"]
    /\ cur = [s \in Sessions |-> "csv"]
    /\ data = [s \in Sessions |-> NoData("unset")]
    /\ ran = [s \in Sessions |-> {}]
    /\ shown = [s \in Sessions |-> {}]
    /\ qsRate = [s \in Sessions |-> NoRate]
    /\ pvRate = [s \in Sessions |-> NoRate]
    /\ superseded = {}
    /\ helper \in HelperModes
    /\ uploadsLeft = MaxUploads

NextHeldOnlyDataset(w, i) == IF i = 0 /\ "csv" \in DOMAIN w THEN 1 ELSE 0

\* the first upload block after position i whose uploader holds a file in w;
\* 0 when there is none
NextHeld(w, i) ==
    LET later == {j \in (i + 1)..Len(KindSeq) : KindSeq[j] \in DOMAIN w}
    IN IF later = {} THEN 0 ELSE CHOOSE j \in later : \A m \in later : j <= m

Index(k) == CHOOSE i \in 1..Len(KindSeq) : KindSeq[i] = k

\* Leave the upload block at position i: go on to the next block whose
\* uploader holds a file, or through the footer to the end of the script.
Advance(s, w, i, r, m) ==
    LET j == NextHeld(w, i)
    IN IF j = 0
        THEN /\ pc' = [pc EXCEPT ![s] = "done"]
             /\ cur' = [cur EXCEPT ![s] = "csv"]
             /\ ran' = [ran EXCEPT ![s] = r \cup {"footer"}]
             /\ shown' = [shown EXCEPT ![s] = m]
        ELSE /\ pc' = [pc EXCEPT ![s] = "open"]
             /\ cur' = [cur EXCEPT ![s] = KindSeq[j]]
             /\ ran' = [ran EXCEPT ![s] = r \cup {KindSeq[j]}]
             /\ shown' = [shown EXCEPT ![s] = m]

\* An unhandled exception ends the run where it is.
Crash(s) ==
    /\ pc' = [pc EXCEPT ![s] = "crashed"]
    /\ cur' = [cur EXCEPT ![s] = "csv"]
    /\ UNCHANGED <<ran, shown>>

\* The script from its top to the first upload block, page "home": header,
\* Quick Stats (the load and the metrics), then the uploaders, whose files are
\* w.
RunHome(s, w) ==
    /\ LET d == LoadOutcome(file, helper)
       IN \E q \in QuickStats(d) :
            /\ data' = [data EXCEPT ![s] = d]
            /\ qsRate' = [qsRate EXCEPT ![s] = q.rate]
            /\ Advance(s, w, 0, {"home", "load"}, q.msgs)
    /\ widget' = [widget EXCEPT ![s] = w]
    /\ pvRate' = [pvRate EXCEPT ![s] = NoRate]
    /\ UNCHANGED <<file, helper>>

\* The script with another page selected: header, the page's function, footer.
\* The page's function is not part of this file; it returns or raises.  No
\* uploader is rendered in such a run, so Streamlit drops their files.
RunPage(s, label) ==
    /\ \E ok \in BOOLEAN :
        /\ pc' = [pc EXCEPT ![s] = IF ok THEN "done" ELSE "crashed"]
        /\ ran' = [ran EXCEPT ![s] = {label} \cup (IF ok THEN {"footer"} ELSE {})]
    /\ shown' = [shown EXCEPT ![s] = {}]
    /\ data' = [data EXCEPT ![s] = NoData("unset")]
    /\ qsRate' = [qsRate EXCEPT ![s] = NoRate]
    /\ pvRate' = [pvRate EXCEPT ![s] = NoRate]
    /\ widget' = [widget EXCEPT ![s] = <<>>]
    /\ superseded' = {x \in superseded : x[1] # s}
    /\ UNCHANGED <<file, cur, helper>>

DispatchCopyPaste(s, label) ==
    IF label = "home"
        THEN RunHome(s, widget[s]) /\ UNCHANGED superseded
    ELSE IF label = "prediction"
        THEN RunPage(s, "model_performance")
        ELSE RunPage(s, label)

\* if page == "Home": ... elif page == ...: the page's function
Dispatch(s, label) ==
    IF label = "home"
        THEN RunHome(s, widget[s]) /\ UNCHANGED superseded
        ELSE RunPage(s, label)

\* ------------------------------------------------------------ interactions
\* The user picks a file in the uploader of kind k (only Home shows uploaders).
Upload(s, k, b) ==
    /\ pc[s] \in Stopped
    /\ page[s] = "home"
    /\ uploadsLeft > 0
    /\ uploadsLeft' = uploadsLeft - 1
    /\ superseded' = (superseded \ {<<s, k>>}) \cup
                      {<<t, k>> : t \in {u \in Sessions \ {s} : k \in DOMAIN widget[u]}}
    /\ page' = page
    /\ RunHome(s, (k :> b) @@ widget[s])

\* The user removes the file from the uploader of kind k.
ClearUpload(s, k) ==
    /\ pc[s] \in Stopped
    /\ page[s] = "home"
    /\ k \in DOMAIN widget[s]
    /\ superseded' = superseded \ {<<s, k>>}
    /\ UNCHANGED <<page, uploadsLeft>>
    /\ RunHome(s, [j \in DOMAIN widget[s] \ {k} |-> widget[s][j]])

\* Any other interaction (or the first page load): the script runs again with
\* the widget state as it is.
Rerun(s) ==
    /\ pc[s] \in Stopped
    /\ UNCHANGED <<page, uploadsLeft>>
    /\ Dispatch(s, page[s])

\* The user selects another page in the sidebar.
SelectPage(s, label) ==
    /\ pc[s] \in Stopped
    /\ label # page[s]
    /\ page' = [page EXCEPT ![s] = label]
    /\ UNCHANGED uploadsLeft
    /\ Dispatch(s, label)

\* ------------------------------------------------------ the upload blocks
\* open(path, "wb") succeeds
Open(s) ==
    /\ pc[s] = "open"
    /\ file' = Truncate(file, cur[s])
    /\ pc' = [pc EXCEPT ![s] = "write"]
    /\ ran' = [ran EXCEPT ![s] =
                IF cur[s] \in DOMAIN file /\ file[cur[s]] # <<>>
                                         /\ file[cur[s]] # widget[s][cur[s]]
                    THEN @ \cup {cur[s] \o "_replaced"} ELSE @]
    /\ UNCHANGED <<widget, page, cur, data, shown, qsRate, pvRate, superseded,
                   helper, uploadsLeft>>

\* What a failed save leaves of the run: the dataset block catches the
\* exception and reports it, the model blocks do not catch it.
Failed(s) ==
    IF cur[s] = "csv"
        THEN Advance(s, widget[s], Index("csv"), ran[s], shown[s] \cup {"err_csv"})
        ELSE Crash(s)

\* open(path, "wb") raises (no permission, no space): the file stays as it was
OpenFail(s) ==
    /\ pc[s] = "open"
    /\ Failed(s)
    /\ UNCHANGED <<file, widget, page, data, qsRate, pvRate, superseded, helper,
                   uploadsLeft>>

\* f.write(buffer) and the close succeed; the success message; for the
\* dataset, the preview of the uploaded buffer
Write(s) ==
    /\ pc[s] = "write"
    /\ LET k == cur[s]
           b == widget[s][k]
       IN /\ file' = [file EXCEPT ![k] = Overlay(file[k], b)]
          /\ IF k = "csv"
               THEN \E p \in Preview(b) :
                      /\ pvRate' = [pvRate EXCEPT ![s] = p.rate]
                      /\ Advance(s, widget[s], Index(k),
                                 ran[s] \cup {k \o "_saved"}, shown[s] \cup p.msgs)
               ELSE /\ pvRate' = pvRate
                    /\ Advance(s, widget[s], Index(k),
                               ran[s] \cup {k \o "_saved"},
                               shown[s] \cup {"ok_" \o k})
    /\ UNCHANGED <<widget, page, data, qsRate, superseded, helper, uploadsLeft>>

\* f.write(buffer) or the close raises after part of the buffer reached the file
WriteFail(s) ==
    /\ pc[s] = "write"
    /\ \E part \in Prefixes(widget[s][cur[s]]) :
            file' = [file EXCEPT ![cur[s]] = Overlay(file[cur[s]], part)]
    /\ Failed(s)
    /\ UNCHANGED <<widget, page, data, qsRate, pvRate, superseded, helper,
                   uploadsLeft>>

\* ---------------------------------------------------------- specifications
Begin(s) ==
    \/ \E k \in Kinds, b \in Buffers : Upload(s, k, b)
    \/ \E k \in Kinds : ClearUpload(s, k)
    \/ Rerun(s)
    \/ \E label \in Labels : SelectPage(s, label)

Step(s) ==
    \/ Open(s)
    \/ OpenFail(s)
    \/ Write(s)
    \/ WriteFail(s)

\* One browser session.
Next == Begin("A") \/ Step("A")

Spec == Init /\ [][Next]_vars

\* No run of another session is in progress.
Quiet(s) == \A t \in Sessions \ {s} : pc[t] \in Stopped

\* Two sessions on Home that upload and rerun, their saves succeeding.
BeginHome(s) ==
    \/ \E k \in Kinds, b \in Buffers : Upload(s, k, b)
    \/ Rerun(s)

Save(s) ==
    \/ Open(s)
    \/ Write(s)

\* Their script runs do not overlap: a run starts only when no other is in
\* progress.
NextSeq == \E s \in Sessions : (Quiet(s) /\ BeginHome(s)) \/ Save(s)

SpecSeq == Init /\ [][NextSeq]_vars

\* Two sessions whose script runs interleave at their file operations.
NextRace == \E s \in Sessions : BeginHome(s) \/ Save(s)

SpecRace == Init /\ [][NextRace]_vars

\* ------------------------------------------------------------------ claims
Held(s) == DOMAIN widget[s]
Saved(s, k) == (k \o "_saved") \in ran[s]
Replaced(s, k) == (k \o "_replaced") \in ran[s]
QuickMetrics == {"records", "units", "features", "rate"}

\* the preview of buffer b raises for certain: read_csv does, or the failure
\* rate over a non-numeric column does
PreviewFails(b) ==
    ~Parseable(b) \/ (ParseCSV(b).failure /\ ~Numeric(ParseCSV(b).rows))

\* C1: once the save of a kind has completed without error, the file at that
\* kind's path is exactly the uploaded buffer, byte for byte and of its
\* length, whatever the file held before.
C1_UploadPersistsVerbatim ==
    \A s \in Sessions, k \in Kinds :
        Saved(s, k) =>
            /\ k \in DOMAIN file
            /\ Len(file[k]) = Len(widget[s][k])
            /\ file[k] = widget[s][k]

\* a completed save that replaced other, non-empty content
C1_Witness ==
    \E k \in Kinds :
        Saved("A", k) /\ Replaced("A", k) /\ file[k] = widget["A"][k]

\* C2: once every session holding a file of a kind has saved it and no run is
\* in progress, the file of that kind is the buffer chosen most recently, not
\* an earlier one.
C2_LatestUploadWins ==
    (\A s \in Sessions : pc[s] \in Stopped) =>
        \A k \in Kinds :
            (\A t \in Sessions : k \in Held(t) => Saved(t, k)) =>
                \A s \in Sessions :
                    (k \in Held(s) /\ <<s, k>> \notin superseded) =>
                        file[k] = widget[s][k]

\* C3: a failed save never ends the run: every Home run that has ended went
\* through the footer.
C3_WriteFailureCaught ==
    \A s \in Sessions :
        (page[s] = "home" /\ pc[s] \in {"done", "crashed"}) => "footer" \in ran[s]

\* C4: every Home run shows either the four Quick Stats metrics or the prompt
\* to upload the dataset.
C4_MetricsOrPrompt ==
    \A s \in Sessions :
        "load" \in ran[s] =>
            (QuickMetrics \subseteq shown[s] \/ "qs_prompt" \in shown[s])

\* C5: a script run executes the render path of the selected label and no
\* other; the dataset load and the upload blocks are executed only with Home
\* selected.
C5_ExactlyOneRenderPath ==
    \A s \in Sessions :
        pc[s] # "idle" =>
            /\ ran[s] \cap Labels = {page[s]}
            /\ (pc[s] \in Running \/ ran[s] \cap (Kinds \cup {"load"}) # {})
                    => page[s] = "home"

\* a finished run of another page, with artifact files on disk
C5_Witness ==
    \E s \in Sessions :
        /\ pc[s] = "done"
        /\ page[s] = "prediction"
        /\ ran[s] = {"prediction", "footer"}
        /\ DOMAIN file # {}

\* C6 as stated: statistics over a dataset without a 'failure' column report a
\* failure ratio of exactly 0%, in Quick Stats and in the upload preview.
C6_ZeroRatioEverywhere ==
    \A s \in Sessions :
        /\ (data[s].res = "data" /\ ~data[s].failure) => qsRate[s] = Rate(0)
        /\ ("pv_records" \in shown[s] /\ ~ParseCSV(widget[s]["csv"]).failure)
                => pvRate[s] = Rate(0)

\* C6 as amended: for a dataset without a 'failure' column Quick Stats reports
\* a failure ratio of exactly 0% and no error; the upload preview reports no
\* failure ratio at all, and no error.
C6_ZeroRatioInQuickStats ==
    \A s \in Sessions :
        /\ (data[s].res = "data" /\ ~data[s].failure) =>
                /\ QuickMetrics \subseteq shown[s]
                /\ qsRate[s] = Rate(0)
                /\ "qs_error" \notin shown[s]
        /\ ("pv_records" \in shown[s] /\ ~ParseCSV(widget[s]["csv"]).failure) =>
                /\ pvRate[s] = NoRate
                /\ "pv_rate" \notin shown[s]
                /\ "err_csv" \notin shown[s]

\* a run that loaded, and previewed, a dataset without a 'failure' column
C6_Witness ==
    \E s \in Sessions :
        /\ data[s].res = "data" /\ ~data[s].failure
        /\ qsRate[s] = Rate(0)
        /\ "pv_records" \in shown[s]
        /\ ~ParseCSV(widget[s]["csv"]).failure

\* C7: the saves of two sessions are not mutually excluded. When both have
\* completed the save of a kind, the file starts with one whole buffer, every
\* byte of it is the byte of one of the two buffers at that offset, and it is
\* no longer than the longer buffer: one buffer laid over the start of the
\* other, which can equal neither.
C7_TornByOverlay ==
    \A k \in Kinds :
        (Saved("A", k) /\ Saved("B", k)) =>
            LET a == widget["A"][k]
                b == widget["B"][k]
                f == file[k]
            IN  /\ Len(f) <= (IF Len(a) > Len(b) THEN Len(a) ELSE Len(b))
                /\ \/ (Len(a) <= Len(f) /\ SubSeq(f, 1, Len(a)) = a)
                   \/ (Len(b) <= Len(f) /\ SubSeq(f, 1, Len(b)) = b)
                /\ \A i \in 1..Len(f) :
                       \/ (i <= Len(a) /\ f[i] = a[i])
                       \/ (i <= Len(b) /\ f[i] = b[i])

\* both saves completed, and the file is neither session's buffer
C7_Witness ==
    \E k \in Kinds :
        /\ Saved("A", k) /\ Saved("B", k)
        /\ pc["A"] = "done" /\ pc["B"] = "done"
        /\ file[k] # widget["A"][k]
        /\ file[k] # widget["B"][k]

\* C8: a file is created or changed only by a Home run that is in the upload
\* block of that file's kind and whose uploader of that kind holds a file.
C8_UploadWritesOnlyItsOwnPath ==
    [][\A k \in Kinds :
        (k \in DOMAIN file' /\ (k \notin DOMAIN file \/ file'[k] # file[k])) =>
            \E s \in Sessions :
                /\ page[s] = "home"
                /\ pc[s] \in Running
                /\ cur[s] = k
                /\ k \in Held(s)]_vars

\* a finished run that saved the XGBoost file alone, the LSTM file still there
C8_Witness ==
    /\ pc["A"] = "done"
    /\ Held("A") = {"xgb"}
    /\ Saved("A", "xgb")
    /\ "lstm" \in DOMAIN file
    /\ file["lstm"] # <<>>

\* C9: a Home run saves the buffer of every uploader holding a file, whether
\* or not the file was chosen in this run: the blocks before the one it is in
\* have saved, a finished run has saved them all, and a file no other session
\* holds is then that buffer.
C9_HomeRunSavesWidgetState ==
    \A s \in Sessions, k \in Kinds :
        (/\ k \in Held(s)
         /\ \/ pc[s] = "done"
            \/ pc[s] \in Running /\ Index(k) < Index(cur[s])) =>
            /\ Saved(s, k)
            /\ (\A t \in Sessions \ {s} : k \notin Held(t)) => file[k] = widget[s][k]

\* A chose X, then B chose Y of the same kind and saved it, then A ran again:
\* the file is back to X
C9_Witness ==
    \E k \in Kinds :
        /\ pc["A"] = "done" /\ pc["B"] = "done"
        /\ <<"A", k>> \in superseded
        /\ Saved("A", k) /\ Saved("B", k)
        /\ widget["A"][k] # widget["B"][k]
        /\ file[k] = widget["A"][k]

\* C10: the dataset is saved and the success message emitted before the
\* buffer is parsed, and nothing is undone: when the preview fails the run
\* shows the success and the error message and the file is the uploaded buffer.
C10_SavedBeforeParsed ==
    \A s \in Sessions :
        (Saved(s, "csv") /\ (PreviewFails(widget[s]["csv"]) \/ "err_csv" \in shown[s]))
            => /\ "ok_csv" \in shown[s]
               /\ "err_csv" \in shown[s]
               /\ file["csv"] = widget[s]["csv"]

\* a later run loaded the dataset whose preview fails, and saved it again
C10_Witness ==
    \E s \in Sessions :
        /\ Saved(s, "csv")
        /\ Parseable(widget[s]["csv"])
        /\ PreviewFails(widget[s]["csv"])
        /\ data[s] = ParseCSV(widget[s]["csv"])
        /\ {"ok_csv", "err_csv"} \subseteq shown[s]
        /\ file["csv"] = widget[s]["csv"]

====
